---- MODULE Spec2Model ----
(***************************************************************************)
(* Theme resolution of posting (src/src/posting/themes.py): the pydantic   *)
(* models PostingTextAreaTheme, SyntaxTheme, VariableStyles, UrlStyles,    *)
(* MethodStyles and Theme, the conversions Theme.to_color_system,          *)
(* Theme.to_text_area_theme and Theme.to_textual_theme, and the loader     *)
(* load_user_themes.                                                       *)
(*                                                                         *)
(* A raw key-value input (the keyword arguments of Theme, that is        *)
(* the content of one YAML file) is a record over every key the models     *)
(* know; NotGiven marks a key that is not in the input, Null a key given   *)
(* as null.  Nested groups are tagged records: "notgiven", "null", "map"   *)
(* (a sub-mapping) or, for syntax, "str".                                  *)
(***************************************************************************)
EXTENDS Integers, Sequences, FiniteSets

VARIABLES raw, theme, result, previous, files, idx, themes, loader

vars == <<raw, theme, result, previous, files, idx, themes, loader>>

resolverVars == <<raw, theme, result, previous>>

loaderVars == <<files, idx, themes, loader>>

\* ------------------------------------------------------------------------
\* Bounds of the model.

\* At most this many keys of an input differ from the minimal input.
MaxOverrides == 2

\* At most this many entries in the theme directory.
MaxFiles == 3

\* ------------------------------------------------------------------------
\* Values.

NotGiven == "<not given>"

Null == "<null>"

None == "<None>"

\* uuid.uuid4().hex: two of the values it can return.
UuidHex == {"uuid-a", "uuid-b"}

\* Python truthiness of an optional string, and `a or b`.
Truthy(s) == s # None /\ s # ""

Or(a, b) == IF Truthy(a) THEN a ELSE b

\* ------------------------------------------------------------------------
\* rich.style.Style: Style.parse and Style + Style(bold=True).

NullStyle == [color |-> None, bold |-> FALSE, dim |-> FALSE]

\* Style.parse(style_definition): raises on None (None has no .strip()) and
\* on a definition outside the style grammar.
Style_parse(s) ==
  CASE s = None -> [ok |-> FALSE, error |-> "AttributeError"]
    [] s = "" -> [ok |-> TRUE, style |-> NullStyle]
    [] s = "dim" -> [ok |-> TRUE, style |-> [NullStyle EXCEPT !.dim = TRUE]]
    [] s = "red" -> [ok |-> TRUE, style |-> [NullStyle EXCEPT !.color = "red"]]
    [] s = "#112233" ->
         [ok |-> TRUE, style |-> [NullStyle EXCEPT !.color = "#112233"]]
    [] s = "bold red" ->
         [ok |-> TRUE,
          style |-> [NullStyle EXCEPT !.color = "red", !.bold = TRUE]]
    [] OTHER -> [ok |-> FALSE, error |-> "StyleSyntaxError"]

\* style + Style(bold=True)
Style_add_bold(st) == [st EXCEPT !.bold = TRUE]

\* ------------------------------------------------------------------------
\* The pydantic models.  Each constructor takes the sub-mapping of the input.

\* A field `str | None = Field(default=None)`.
OptStr(v) == IF v = NotGiven \/ v = Null THEN None ELSE v

\* A field `str | None = Field(default=d)`: the default only when not given.
DefStr(v, d) == IF v = NotGiven THEN d ELSE IF v = Null THEN None ELSE v

TextAreaFields ==
  {"gutter", "cursor", "cursor_line", "cursor_line_gutter", "matched_bracket",
   "selection"}

SyntaxFields ==
  {"json_key", "json_string", "json_number", "json_boolean", "json_null"}

VariableFields == {"resolved", "unresolved"}

UrlFields == {"base", "protocol", "separator"}

Verbs == {"get", "post", "put", "delete", "patch", "options", "head"}

PostingTextAreaTheme(m) == [f \in TextAreaFields |-> OptStr(m[f])]

SyntaxTheme(m) == [f \in SyntaxFields |-> OptStr(m[f])]

VariableStyles(m) == [f \in VariableFields |-> OptStr(m[f])]

UrlStyles(m) ==
  [base |-> OptStr(m.base),
   protocol |-> OptStr(m.protocol),
   separator |-> DefStr(m.separator, "dim")]

MethodDefault ==
  [get |-> "#0ea5e9", post |-> "#22c55e", put |-> "#f59e0b",
   delete |-> "#ef4444", patch |-> "#14b8a6", options |-> "#8b5cf6",
   head |-> "#d946ef"]

MethodStyles(m) == [v \in Verbs |-> DefStr(m[v], MethodDefault[v])]

\* A sub-mapping with no key given.
EmptyMap(fields) == [f \in fields |-> NotGiven]

GroupFields(key) ==
  CASE key = "text_area" -> TextAreaFields
    [] key = "syntax" -> SyntaxFields
    [] key = "url" -> UrlFields
    [] key = "variable" -> VariableFields
    [] key = "method" -> Verbs

GroupKeys == {"text_area", "syntax", "url", "variable", "method"}

\* VariableStyles.fill_with_defaults
VariableStyles_fill_with_defaults(self, t) ==
  [resolved |-> Or(self.resolved, t.success),
   unresolved |-> Or(self.unresolved, t.error)]

\* A faulty UrlStyles.fill_with_defaults: separator is not filled.
UrlStyles_fill_without_separator(self, t) ==
  [base |-> Or(self.base, t.secondary),
   protocol |-> Or(self.protocol, t.accent),
   separator |-> self.separator]

\* UrlStyles.fill_with_defaults
UrlStyles_fill_with_defaults(self, t) ==
  [base |-> Or(self.base, t.secondary),
   protocol |-> Or(self.protocol, t.accent),
   separator |-> Or(self.separator, "dim")]

\* ------------------------------------------------------------------------
\* Theme: construction from keyword arguments (pydantic validation, defaults).

CoreOptional ==
  {"secondary", "background", "surface", "panel", "warning", "error",
   "success", "accent"}

Metadata == {"author", "description", "homepage"}

\* text_area: PostingTextAreaTheme = Field(default_factory=PostingTextAreaTheme)
Theme_text_area(g) ==
  IF g.tag = "map" THEN PostingTextAreaTheme(g.val)
  ELSE PostingTextAreaTheme(EmptyMap(TextAreaFields))

\* syntax: str | SyntaxTheme = Field(default="posting", exclude=True)
Theme_syntax(g) ==
  CASE g.tag = "map" -> [tag |-> "SyntaxTheme", val |-> SyntaxTheme(g.val)]
    [] g.tag = "str" -> [tag |-> "str", val |-> g.val]
    [] OTHER -> [tag |-> "str", val |-> "posting"]

\* url: UrlStyles | None = Field(default_factory=UrlStyles)
Theme_url(g) ==
  CASE g.tag = "map" -> [tag |-> "UrlStyles", val |-> UrlStyles(g.val)]
    [] g.tag = "null" -> [tag |-> "None"]
    [] OTHER -> [tag |-> "UrlStyles", val |-> UrlStyles(EmptyMap(UrlFields))]

\* variable: VariableStyles | None = Field(default_factory=VariableStyles)
Theme_variable(g) ==
  CASE g.tag = "map" ->
         [tag |-> "VariableStyles", val |-> VariableStyles(g.val)]
    [] g.tag = "null" -> [tag |-> "None"]
    [] OTHER ->
         [tag |-> "VariableStyles",
          val |-> VariableStyles(EmptyMap(VariableFields))]

\* A faulty method field: `MethodStyles | None = None`.
Theme_method_default_None(g) ==
  IF g.tag = "map" THEN [tag |-> "MethodStyles", val |-> MethodStyles(g.val)]
  ELSE [tag |-> "None"]

\* method: MethodStyles | None = Field(default_factory=MethodStyles)
Theme_method(g) ==
  CASE g.tag = "map" -> [tag |-> "MethodStyles", val |-> MethodStyles(g.val)]
    [] g.tag = "null" -> [tag |-> "None"]
    [] OTHER -> [tag |-> "MethodStyles", val |-> MethodStyles(EmptyMap(Verbs))]

\* What pydantic rejects: a required string missing or null, and null for a
\* field whose type does not admit None.  Nothing else is validated.
Theme_validates(r) ==
  /\ r.name # NotGiven /\ r.name # Null
  /\ r.primary # NotGiven /\ r.primary # Null
  /\ r.dark # Null
  /\ r.text_area.tag # "null"
  /\ r.syntax.tag # "null"

Theme(r) ==
  IF ~Theme_validates(r) THEN [ok |-> FALSE, error |-> "ValidationError"]
  ELSE
    [ok |-> TRUE,
     value |->
       [name |-> r.name,
        primary |-> r.primary,
        secondary |-> OptStr(r.secondary),
        background |-> OptStr(r.background),
        surface |-> OptStr(r.surface),
        panel |-> OptStr(r.panel),
        warning |-> OptStr(r.warning),
        error |-> OptStr(r.error),
        success |-> OptStr(r.success),
        accent |-> OptStr(r.accent),
        dark |-> (r.dark # "false"),
        text_area |-> Theme_text_area(r.text_area),
        syntax |-> Theme_syntax(r.syntax),
        url |-> Theme_url(r.url),
        variable |-> Theme_variable(r.variable),
        method |-> Theme_method(r.method),
        author |-> OptStr(r.author),
        description |-> OptStr(r.description),
        homepage |-> OptStr(r.homepage)]]

\* ------------------------------------------------------------------------
\* Python dicts: functions whose domain is the set of keys.

EmptyDict == [k \in {} |-> None]

\* d.update(e)
dict_update(d, e) ==
  [k \in DOMAIN d \cup DOMAIN e |-> IF k \in DOMAIN e THEN e[k] ELSE d[k]]

\* A faulty filter: every item is kept.
all_items(d) == d

\* {k: v for k, v in d.items() if v is not None}
not_None_items(d) == [k \in {j \in DOMAIN d : d[j] # None} |-> d[k]]

\* ------------------------------------------------------------------------
\* SyntaxTheme.to_text_area_syntax_styles

SyntaxStyleKeys == {"string", "number", "boolean", "json.null", "json.label"}

\* The five arguments of Style.parse, in the order the dict literal
\* evaluates them.
syntax_style_definitions(self, fallback_theme) ==
  [string |-> Or(self.json_string, fallback_theme.primary),
   number |-> Or(self.json_number, fallback_theme.accent),
   boolean |-> Or(self.json_boolean, fallback_theme.accent),
   json_null |-> Or(self.json_null, fallback_theme.secondary),
   json_label |-> Or(self.json_key, fallback_theme.primary)]

to_text_area_syntax_styles(self, fallback_theme) ==
  LET d == syntax_style_definitions(self, fallback_theme)
      s == Style_parse(d.string)
      n == Style_parse(d.number)
      b == Style_parse(d.boolean)
      z == Style_parse(d.json_null)
      l == Style_parse(d.json_label)
  IN  CASE ~s.ok -> [ok |-> FALSE, error |-> s.error]
        [] ~n.ok -> [ok |-> FALSE, error |-> n.error]
        [] ~b.ok -> [ok |-> FALSE, error |-> b.error]
        [] ~z.ok -> [ok |-> FALSE, error |-> z.error]
        [] ~l.ok -> [ok |-> FALSE, error |-> l.error]
        [] OTHER ->
             [ok |-> TRUE,
              value |->
                [k \in SyntaxStyleKeys |->
                   CASE k = "string" -> s.style
                     [] k = "number" -> n.style
                     [] k = "boolean" -> b.style
                     [] k = "json.null" -> z.style
                     [] k = "json.label" -> Style_add_bold(l.style)]]

\* ------------------------------------------------------------------------
\* Theme.to_color_system

\* model_dump leaves out the five excluded groups and every field declared
\* with exclude=True (name, syntax, author, description, homepage).
to_color_system(self) ==
  [ok |-> TRUE,
   op |-> "to_color_system",
   value |->
     [primary |-> self.primary,
      secondary |-> self.secondary,
      background |-> self.background,
      surface |-> self.surface,
      panel |-> self.panel,
      warning |-> self.warning,
      error |-> self.error,
      success |-> self.success,
      accent |-> self.accent,
      dark |-> self.dark]]

\* ------------------------------------------------------------------------
\* Theme.to_text_area_theme

\* The names TextAreaTheme.get_builtin_theme knows (textual).
TextualBuiltinThemes ==
  {"css", "monokai", "dracula", "vscode_dark", "github_light"}

\* TextAreaTheme.get_builtin_theme(name): the builtin of that name, or None.
get_builtin_theme(theme_name) ==
  IF theme_name \in TextualBuiltinThemes
  THEN [tag |-> "TextAreaTheme", name |-> theme_name]
  ELSE [tag |-> "None"]

\* `Style.parse(x) if x else None`
parse_if_set(x) ==
  IF Truthy(x)
  THEN LET p == Style_parse(x)
       IN  IF p.ok THEN [ok |-> TRUE, value |-> [tag |-> "Style", style |-> p.style]]
           ELSE [ok |-> FALSE, error |-> p.error]
  ELSE [ok |-> TRUE, value |-> [tag |-> "None"]]

\* if isinstance(self.syntax, SyntaxTheme): ... else: get_builtin_theme(...)
theme_syntax_styles(self) ==
  IF self.syntax.tag = "SyntaxTheme"
  THEN LET st == to_text_area_syntax_styles(self.syntax.val, self)
       IN  IF st.ok
           THEN [ok |-> TRUE, value |-> [tag |-> "dict", val |-> st.value]]
           ELSE st
  ELSE [ok |-> TRUE, value |-> get_builtin_theme(self.syntax.val)]

\* TextAreaTheme(name=..., syntax_styles=syntax, gutter_style=..., ...), the
\* arguments evaluated in order; syntax was evaluated before the call.
TextAreaTheme(name, syntax, text_area) ==
  LET gutter == parse_if_set(text_area.gutter)
      cursor == parse_if_set(text_area.cursor)
      cursor_line == parse_if_set(text_area.cursor_line)
      cursor_line_gutter == parse_if_set(text_area.cursor_line_gutter)
      matched_bracket == parse_if_set(text_area.matched_bracket)
      selection == parse_if_set(text_area.selection)
      raised(e) == [ok |-> FALSE, op |-> "to_text_area_theme", error |-> e]
  IN  CASE ~syntax.ok -> raised(syntax.error)
        [] ~gutter.ok -> raised(gutter.error)
        [] ~cursor.ok -> raised(cursor.error)
        [] ~cursor_line.ok -> raised(cursor_line.error)
        [] ~cursor_line_gutter.ok -> raised(cursor_line_gutter.error)
        [] ~matched_bracket.ok -> raised(matched_bracket.error)
        [] ~selection.ok -> raised(selection.error)
        [] OTHER ->
             [ok |-> TRUE,
              op |-> "to_text_area_theme",
              value |->
                [name |-> name,
                 syntax_styles |-> syntax.value,
                 gutter_style |-> gutter.value,
                 cursor_style |-> cursor.value,
                 cursor_line_style |-> cursor_line.value,
                 cursor_line_gutter_style |-> cursor_line_gutter.value,
                 bracket_matching_style |-> matched_bracket.value,
                 selection_style |-> selection.value]]

\* A faulty to_text_area_theme: the syntax styles are registered under the
\* fresh name and handed over by that name.
to_text_area_theme_styles_by_name(self, u) ==
  TextAreaTheme(u,
                [ok |-> TRUE, value |-> [tag |-> "TextAreaTheme", name |-> u]],
                self.text_area)

\* u is the value uuid.uuid4().hex returns in this call.
to_text_area_theme(self, u) ==
  TextAreaTheme(u, theme_syntax_styles(self), self.text_area)

\* ------------------------------------------------------------------------
\* Theme.to_textual_theme

\* The string entries of theme_data (dark, a bool that is never None, is
\* added after the filter).
theme_data_strings(self) ==
  [name |-> self.name,
   primary |-> self.primary,
   secondary |-> self.secondary,
   background |-> self.background,
   surface |-> self.surface,
   panel |-> self.panel,
   warning |-> self.warning,
   error |-> self.error,
   success |-> self.success,
   accent |-> self.accent]

\* if self.url: variables.update({...})
url_variables(self) ==
  IF self.url.tag # "None"
  THEN LET url_styles == UrlStyles_fill_with_defaults(self.url.val, self)
       IN  [k \in {"url-base", "url-protocol", "url-separator"} |->
              CASE k = "url-base" -> url_styles.base
                [] k = "url-protocol" -> url_styles.protocol
                [] k = "url-separator" -> url_styles.separator]
  ELSE EmptyDict

\* if self.variable: variables.update({...})
variable_variables(self) ==
  IF self.variable.tag # "None"
  THEN LET var_styles ==
             VariableStyles_fill_with_defaults(self.variable.val, self)
       IN  [k \in {"variable-resolved", "variable-unresolved"} |->
              IF k = "variable-resolved" THEN var_styles.resolved
              ELSE var_styles.unresolved]
  ELSE EmptyDict

MethodKey(v) ==
  CASE v = "get" -> "method-get"
    [] v = "post" -> "method-post"
    [] v = "put" -> "method-put"
    [] v = "delete" -> "method-delete"
    [] v = "patch" -> "method-patch"
    [] v = "options" -> "method-options"
    [] v = "head" -> "method-head"

MethodKeys == {MethodKey(v) : v \in Verbs}

\* if self.method: variables.update({...})
method_variables(self) ==
  IF self.method.tag # "None"
  THEN [k \in MethodKeys |->
          self.method.val[CHOOSE v \in Verbs : MethodKey(v) = k]]
  ELSE EmptyDict

TextAreaKey(f) ==
  CASE f = "gutter" -> "text-area-gutter"
    [] f = "cursor" -> "text-area-cursor"
    [] f = "cursor_line" -> "text-area-cursor-line"
    [] f = "cursor_line_gutter" -> "text-area-cursor-line-gutter"
    [] f = "matched_bracket" -> "text-area-matched-bracket"
    [] f = "selection" -> "text-area-selection"

\* if self.text_area: one `if field: variables[key] = field` per field
text_area_variables(self) ==
  LET set == {f \in TextAreaFields : Truthy(self.text_area[f])}
  IN  [k \in {TextAreaKey(f) : f \in set} |->
         self.text_area[CHOOSE f \in set : TextAreaKey(f) = k]]

SyntaxKey(f) ==
  CASE f = "json_key" -> "syntax-json-key"
    [] f = "json_string" -> "syntax-json-string"
    [] f = "json_number" -> "syntax-json-number"
    [] f = "json_boolean" -> "syntax-json-boolean"
    [] f = "json_null" -> "syntax-json-null"

\* if isinstance(self.syntax, SyntaxTheme): ... elif isinstance(.., str): ...
\* (the final else is unreachable: syntax is a str or a SyntaxTheme)
syntax_variables(self) ==
  IF self.syntax.tag = "SyntaxTheme"
  THEN LET set == {f \in SyntaxFields : Truthy(self.syntax.val[f])}
       IN  [k \in {SyntaxKey(f) : f \in set} |->
              self.syntax.val[CHOOSE f \in set : SyntaxKey(f) = k]]
  ELSE [k \in {"syntax-theme"} |-> self.syntax.val]

\* The dict `variables` before the final filter.
variables_of(self) ==
  dict_update(
    dict_update(
      dict_update(
        dict_update(url_variables(self), variable_variables(self)),
        method_variables(self)),
      text_area_variables(self)),
    syntax_variables(self))

to_textual_theme(self) ==
  [ok |-> TRUE,
   op |-> "to_textual_theme",
   value |->
     [theme_data |-> not_None_items(theme_data_strings(self)),
      dark |-> self.dark,
      variables |-> not_None_items(variables_of(self))]]

\* ------------------------------------------------------------------------
\* Inputs: the keyword arguments a caller (or a YAML file) can give.

GroupNotGiven == [tag |-> "notgiven"]

\* {} : no key at all.
EmptyContent ==
  [name |-> NotGiven, primary |-> NotGiven, secondary |-> NotGiven,
   background |-> NotGiven, surface |-> NotGiven, panel |-> NotGiven,
   warning |-> NotGiven, error |-> NotGiven, success |-> NotGiven,
   accent |-> NotGiven, dark |-> NotGiven, text_area |-> GroupNotGiven,
   syntax |-> GroupNotGiven, url |-> GroupNotGiven,
   variable |-> GroupNotGiven, method |-> GroupNotGiven,
   author |-> NotGiven, description |-> NotGiven, homepage |-> NotGiven]

\* Only name and primary are given.
RawMinimal == [EmptyContent EXCEPT !.name = "t1", !.primary = "#112233"]

Ov(k, s, v) == [key |-> k, sub |-> s, v |-> v]

\* One key of the input set to one value: a top-level key (sub = ""), a
\* whole group ("<null>", "<empty>" for a sub-mapping without keys, or a
\* plain string for syntax), or one key of a group's sub-mapping.
Overrides ==
  {Ov("name", "", v) : v \in {NotGiven, Null, "", "t2"}}
  \cup {Ov("primary", "", v) : v \in {NotGiven, "", "bad!", "red"}}
  \cup {Ov(k, "", v) : k \in {"secondary", "accent", "success"},
                        v \in {"", "red"}}
  \cup {Ov(k, "", "red") :
          k \in {"error", "background", "surface", "panel", "warning"}}
  \cup {Ov("dark", "", "false")}
  \cup {Ov(k, "", "someone") : k \in Metadata}
  \cup {Ov(k, "", v) : k \in GroupKeys, v \in {"<null>", "<empty>"}}
  \cup {Ov("syntax", "", v) : v \in {"monokai", "posting", ""}}
  \cup {Ov("text_area", "gutter", v) : v \in {"red", "", "bad!"}}
  \cup {Ov("text_area", f, "dim") : f \in TextAreaFields \ {"gutter"}}
  \cup {Ov("syntax", "json_number", v) : v \in {"red", ""}}
  \cup {Ov("syntax", "json_key", "bold red")}
  \cup {Ov("syntax", f, "red") :
          f \in {"json_string", "json_boolean", "json_null"}}
  \cup {Ov("url", "base", v) : v \in {"red", ""}}
  \cup {Ov("url", "protocol", "red")}
  \cup {Ov("url", "separator", v) : v \in {Null, "", "red"}}
  \cup {Ov("variable", "resolved", v) : v \in {"red", ""}}
  \cup {Ov("variable", "unresolved", "red")}
  \cup {Ov("method", "get", v) : v \in {"red", "", Null}}
  \cup {Ov("method", f, "red") : f \in Verbs \ {"get"}}

GroupValue(key, v) ==
  CASE v = "<null>" -> [tag |-> "null"]
    [] v = "<empty>" -> [tag |-> "map", val |-> EmptyMap(GroupFields(key))]
    [] OTHER -> [tag |-> "str", val |-> v]

ApplyOverride(r, o) ==
  IF o.sub = ""
  THEN IF o.key \in GroupKeys
       THEN [r EXCEPT ![o.key] = GroupValue(o.key, o.v)]
       ELSE [r EXCEPT ![o.key] = o.v]
  ELSE LET g == r[o.key]
           m == IF g.tag = "map" THEN g.val ELSE EmptyMap(GroupFields(o.key))
       IN  [r EXCEPT ![o.key] = [tag |-> "map", val |-> [m EXCEPT ![o.sub] = o.v]]]

RECURSIVE RawInputs(_)
\* The inputs that differ from the minimal one in at most n keys.
RawInputs(n) ==
  IF n = 0 THEN {RawMinimal}
  ELSE LET P == RawInputs(n - 1)
       IN  P \cup {ApplyOverride(r, o) : r \in P, o \in Overrides}

\* ------------------------------------------------------------------------
\* The resolver: a caller constructs a Theme and calls its conversions.

NotConstructed == [ok |-> FALSE, error |-> "<not constructed>"]

NoCall == [ok |-> FALSE, op |-> "<none>", error |-> "<no call>"]

LoaderIdle == [pc |-> "idle"]

Init ==
  /\ raw \in RawInputs(MaxOverrides)
  /\ theme = NotConstructed
  /\ result = NoCall
  /\ previous = NoCall
  /\ files = << >>
  /\ idx = 1
  /\ themes = EmptyDict
  /\ loader = LoaderIdle

\* theme = Theme(raw as keyword arguments)
ThemeConstruct ==
  /\ theme = NotConstructed
  /\ theme' = Theme(raw)
  /\ UNCHANGED <<raw, result, previous>>
  /\ UNCHANGED loaderVars

\* theme.to_color_system()
CallToColorSystem ==
  /\ theme.ok
  /\ result' = to_color_system(theme.value)
  /\ previous' = result
  /\ UNCHANGED <<raw, theme>>
  /\ UNCHANGED loaderVars

\* theme.to_text_area_theme()
CallToTextAreaTheme ==
  /\ theme.ok
  /\ \E u \in UuidHex : result' = to_text_area_theme(theme.value, u)
  /\ previous' = result
  /\ UNCHANGED <<raw, theme>>
  /\ UNCHANGED loaderVars

\* theme.to_textual_theme()
CallToTextualTheme ==
  /\ theme.ok
  /\ result' = to_textual_theme(theme.value)
  /\ previous' = result
  /\ UNCHANGED <<raw, theme>>
  /\ UNCHANGED loaderVars

Next ==
  \/ ThemeConstruct
  \/ CallToColorSystem
  \/ CallToTextAreaTheme
  \/ CallToTextualTheme

Spec == Init /\ [][Next]_vars

\* ------------------------------------------------------------------------
\* load_user_themes: one action per iteration of `for path in
\* directory.iterdir()`, and one for the return.

\* The entries a theme directory may hold: path, path.suffix and the
\* mapping yaml.load returns for the file (`or {}` for an empty file).
DirectoryEntries ==
  {[path |-> "valid.yaml", suffix |-> ".yaml",
    content |-> [EmptyContent EXCEPT !.name = "foo", !.primary = "#112233"]],
   [path |-> "valid2.yaml", suffix |-> ".yaml",
    content |-> [EmptyContent EXCEPT !.name = "bar", !.primary = "red"]],
   [path |-> "foo_again.yml", suffix |-> ".yml",
    content |-> [EmptyContent EXCEPT !.name = "foo", !.primary = "red",
                                      !.url = [tag |-> "null"]]],
   [path |-> "missing_name.yaml", suffix |-> ".yaml",
    content |-> [EmptyContent EXCEPT !.primary = "red"]],
   [path |-> "empty.yml", suffix |-> ".yml", content |-> EmptyContent],
   [path |-> "no_primary.yaml", suffix |-> ".yaml",
    content |-> [EmptyContent EXCEPT !.name = "baz"]],
   [path |-> "notes.txt", suffix |-> ".txt",
    content |-> [EmptyContent EXCEPT !.name = "foo", !.primary = "bad!"]]}

Range(q) == {q[i] : i \in 1..Len(q)}

RECURSIVE Listings(_)
\* directory.iterdir(): up to n distinct entries, in any order.
Listings(n) ==
  IF n = 0 THEN {<< >>}
  ELSE LET P == Listings(n - 1)
       IN  P \cup UNION {{Append(q, f) : f \in DirectoryEntries \ Range(q)} : q \in P}

\* path_suffix == ".yaml" or path_suffix == ".yml"
IsThemeFile(f) == f.suffix = ".yaml" \/ f.suffix = ".yml"

\* A faulty store: themes.setdefault(key, value), the first entry is kept.
dict_setdefault(d, key, value) ==
  IF key \in DOMAIN d THEN d ELSE dict_update(d, [k \in {key} |-> value])

\* themes[key] = value
dict_setitem(d, key, value) == dict_update(d, [k \in {key} |-> value])

Iterating == [pc |-> "iterating", error |-> None, path |-> None]

InitLoader ==
  /\ files \in Listings(MaxFiles)
  /\ idx = 1
  /\ themes = EmptyDict
  /\ loader = Iterating
  /\ raw = RawMinimal
  /\ theme = NotConstructed
  /\ result = NoCall
  /\ previous = NoCall

\* The body of the loop for files[idx].  The right-hand side
\* Theme(...).to_textual_theme() is evaluated before the
\* subscript theme_content["name"]; only a KeyError is caught.
LoadVisit ==
  /\ loader.pc = "iterating"
  /\ idx <= Len(files)
  /\ LET f == files[idx]
         t == Theme(f.content)
     IN  IF ~IsThemeFile(f)
         THEN /\ idx' = idx + 1
              /\ UNCHANGED <<themes, loader>>
         ELSE IF ~t.ok
         THEN /\ loader' = [pc |-> "raised", error |-> t.error, path |-> None]
              /\ UNCHANGED <<themes, idx>>
         ELSE IF f.content.name = NotGiven
         THEN /\ loader' =
                   [pc |-> "raised", error |-> "ValueError", path |-> f.path]
              /\ UNCHANGED <<themes, idx>>
         ELSE /\ themes' =
                   dict_setitem(themes, f.content.name,
                                to_textual_theme(t.value).value)
              /\ idx' = idx + 1
              /\ UNCHANGED loader
  /\ UNCHANGED files
  /\ UNCHANGED resolverVars

\* return themes
LoadReturn ==
  /\ loader.pc = "iterating"
  /\ idx > Len(files)
  /\ loader' = [loader EXCEPT !.pc = "returned"]
  /\ UNCHANGED <<files, idx, themes>>
  /\ UNCHANGED resolverVars

NextLoader == LoadVisit \/ LoadReturn

LoaderSpec == InitLoader /\ [][NextLoader]_vars

\* ------------------------------------------------------------------------
\* Properties of the resolver, stated for Spec.

Unset(v) == v = NotGiven \/ v = Null

\* A style string the style grammar accepts.
Parseable(v) == Style_parse(v).ok

\* The descriptors the specification calls valid: name and primary given
\* and non-empty, and every style string that is given parseable.
SpecValid(r) ==
  /\ ~Unset(r.name) /\ r.name # ""
  /\ ~Unset(r.primary) /\ r.primary # "" /\ Parseable(r.primary)
  /\ \A k \in CoreOptional : Unset(r[k]) \/ Parseable(r[k])
  /\ \A g \in GroupKeys :
       r[g].tag = "map" =>
         \A f \in GroupFields(g) : Unset(r[g].val[f]) \/ Parseable(r[g].val[f])

Called(op) == theme.ok /\ result.op = op

\* The field f of group g as the input gives it (NotGiven without the group).
RawField(g, f) == IF raw[g].tag = "map" THEN raw[g].val[f] ELSE NotGiven

\* The table of the syntax style derivation: own field, fallback field.
SyntaxTable ==
  [k \in SyntaxStyleKeys |->
     CASE k = "string" -> [own |-> "json_string", fallback |-> "primary"]
       [] k = "number" -> [own |-> "json_number", fallback |-> "accent"]
       [] k = "boolean" -> [own |-> "json_boolean", fallback |-> "accent"]
       [] k = "json.null" -> [own |-> "json_null", fallback |-> "secondary"]
       [] k = "json.label" -> [own |-> "json_key", fallback |-> "primary"]]

TableStyleHolds(styles, k) ==
  LET p == Style_parse(Or(OptStr(RawField("syntax", SyntaxTable[k].own)),
                          theme.value[SyntaxTable[k].fallback]))
  IN  /\ p.ok
      /\ styles[k] = IF k = "json.label" THEN Style_add_bold(p.style)
                     ELSE p.style

\* C1: for every valid descriptor whose syntax is not given or is a
\* structured group, to_text_area_theme yields a syntax style map with
\* exactly the five keys, each entry the group's own field when set and
\* otherwise the table's theme field, the key label bold.
C1_SyntaxStylesSelfDerived ==
  (Called("to_text_area_theme") /\ SpecValid(raw)
     /\ raw.syntax.tag \in {"notgiven", "map"})
  => /\ result.ok
     /\ result.value.syntax_styles.tag = "dict"
     /\ DOMAIN result.value.syntax_styles.val = SyntaxStyleKeys
     /\ \A k \in SyntaxStyleKeys :
          TableStyleHolds(result.value.syntax_styles.val, k)

\* C2: for every valid descriptor, no key of the variable map of
\* to_textual_theme has the value None or the empty string.
C2_NoEmptyVariable ==
  (Called("to_textual_theme") /\ SpecValid(raw))
  => \A k \in DOMAIN result.value.variables :
       /\ result.value.variables[k] # None
       /\ result.value.variables[k] # ""

UrlKeys == {"url-base", "url-protocol", "url-separator"}

SeparatorIsDim ==
  /\ "url-separator" \in DOMAIN result.value.variables
  /\ result.value.variables["url-separator"] = "dim"

NoUrlKeys == DOMAIN result.value.variables \cap UrlKeys = {}

\* C3 as claimed: a url group that is present with separator unset gives
\* url-separator = "dim"; a url group that is not given gives no url-* key.
C3_UrlGroupAsClaimed ==
  (Called("to_textual_theme") /\ SpecValid(raw))
  => /\ (raw.url.tag = "map" /\ Unset(raw.url.val.separator)) => SeparatorIsDim
     /\ raw.url.tag = "notgiven" => NoUrlKeys

\* C3 as amended: a url group that is present with separator unset, and a
\* url group that is not given at all (it defaults to an empty group), give
\* url-separator = "dim"; only a url group given as null gives no url-* key.
C3_UrlGroup ==
  Called("to_textual_theme")
  => /\ (raw.url.tag = "map" /\ Unset(raw.url.val.separator)) => SeparatorIsDim
     /\ raw.url.tag = "notgiven" => SeparatorIsDim
     /\ raw.url.tag = "null" => NoUrlKeys

C3_Witness ==
  /\ Called("to_textual_theme")
  /\ raw.url.tag = "notgiven"
  /\ SeparatorIsDim

NoMethodKeys == DOMAIN result.value.variables \cap MethodKeys = {}

DefaultsDistinct ==
  \A v, w \in Verbs : v # w => MethodDefault[v] # MethodDefault[w]

IsMinimal(r) ==
  /\ SpecValid(r)
  /\ [r EXCEPT !.name = "t1", !.primary = "#112233"] = RawMinimal

MinimalVariables ==
  [k \in {"url-separator", "syntax-theme"} \cup MethodKeys |->
     CASE k = "url-separator" -> "dim"
       [] k = "syntax-theme" -> "posting"
       [] OTHER -> MethodDefault[CHOOSE v \in Verbs : MethodKey(v) = k]]

C7_ValidationRejects == theme.ok => SpecValid(raw)

\* C10: for every valid descriptor whose syntax is a structured group,
\* to_text_area_theme completes without error and returns a style for each
\* of the five syntax keys.
C10_SyntaxDerivationTotal ==
  (Called("to_text_area_theme") /\ SpecValid(raw) /\ raw.syntax.tag = "map")
  => /\ result.ok
     /\ result.value.syntax_styles.tag = "dict"
     /\ DOMAIN result.value.syntax_styles.val = SyntaxStyleKeys

\* ------------------------------------------------------------------------
\* Properties of the loader, stated for LoaderSpec.

\* The theme files the loop has gone past.
Visited == {i \in 1..(idx - 1) : IsThemeFile(files[i])}

NameOf(i) == files[i].content.name

\* The resolved representation of file i.
Resolved(i) == to_textual_theme(Theme(files[i].content).value).value

LastWithName(i) ==
  CHOOSE j \in Visited :
    /\ NameOf(j) = NameOf(i)
    /\ \A k \in Visited : NameOf(k) = NameOf(i) => k <= j

\* C8: at every point of the load (so in the registry returned) the registry
\* holds exactly one entry per name declared by the theme files visited, and
\* the entry of a name is the resolved representation of the last visited
\* file that declares it; entries of other names are as their own last file
\* left them.
C8_LastWriteWins ==
  /\ DOMAIN themes = {NameOf(i) : i \in Visited}
  /\ \A i \in Visited : themes[NameOf(i)] = Resolved(LastWithName(i))

C8_Witness ==
  /\ loader.pc = "returned"
  /\ \E i, j \in Visited :
       /\ i < j
       /\ NameOf(i) = NameOf(j)
       /\ Resolved(i) # Resolved(j)
       /\ themes[NameOf(i)] = Resolved(j)
       /\ \E k \in Visited : NameOf(k) # NameOf(i)

\* C9: a theme file without the name key does not abort the load: the load
\* never raises at such a file, and for the listing valid.yaml,
\* missing_name.yaml, valid2.yaml the load returns with the themes of both
\* valid files.
C9_MissingNameDoesNotAbort ==
  /\ \A i \in 1..Len(files) :
       (IsThemeFile(files[i]) /\ NameOf(i) = NotGiven /\ idx = i)
       => loader.pc # "raised"
  /\ ([i \in 1..Len(files) |-> files[i].path]
        = <<"valid.yaml", "missing_name.yaml", "valid2.yaml">>
      /\ loader.pc # "iterating")
     => (loader.pc = "returned" /\ {"foo", "bar"} \subseteq DOMAIN themes)

====
